---- MODULE Spec2Model ----
(***************************************************************************)
(* Voice keying of rig-macros.py: the hardware-memory buttons T1/T2, the   *)
(* three Piper TTS buttons with their background threads, the background   *)
(* TTS pre-generation task, the serial RTS/DTR lines and the rig (FLRig).  *)
(***************************************************************************)
EXTENDS Integers, Sequences, FiniteSets, TLC

(* ---------------------------------------------------------------- bounds *)
\* keying operations (button presses) whose state is kept at the same time
MaxOps == 2
\* failing calls (raised exceptions, non-zero exits) injected into one operation
MaxFaults == 1
\* non-zero power-meter reads counted per hardware-memory operation
MaxPolls == 2
\* iterations of the wait loop for the TTS file: range(50), line 718
WaitPolls == 50
\* recordings started in one run
MaxRecs == 2

Ops == 1..MaxOps

(* ----------------------------------------------------------- mode strings *)
\* A mode string is the sequence of its characters.
USB == <<"U", "S", "B">>
LSB == <<"L", "S", "B">>
DashD == <<"-", "D">>
USB_D == USB \o DashD
\* original_mode = None
NoMode == <<>>

\* the modes the rig may be in when the program starts
RigModes == {USB, LSB, USB_D}

\* sub occurs in s at position i
OccursAt(s, sub, i) ==
    /\ i + Len(sub) - 1 <= Len(s)
    /\ \A k \in 1..Len(sub) : s[i + k - 1] = sub[k]

\* Python's  sub in s
Contains(s, sub) == \E i \in 1..Len(s) : OccursAt(s, sub, i)

\* Python's  s.replace(sub, ""), scanning s from position i
RECURSIVE RemoveFrom(_, _, _)
RemoveFrom(s, sub, i) ==
    IF i > Len(s) THEN <<>>
    ELSE IF OccursAt(s, sub, i) THEN RemoveFrom(s, sub, i + Len(sub))
    ELSE <<s[i]>> \o RemoveFrom(s, sub, i + 1)

\* data_mode of lines 735-738
data_mode(m) == IF ~Contains(m, DashD) THEN m \o DashD ELSE m

\* restore_mode of line 780
restore_mode(m) == RemoveFrom(m, DashD, 1)

(* ------------------------------------------------------------------ state *)
HwButtons == {"T1", "T2"}
Prompts == {"n9oh", "tu59", "73"}
\* the order of the generate_tts_file calls in pre_generate_tts
RenderOrder == <<"n9oh", "tu59", "73">>

VARIABLES
    portOpen,       \* serial_port and serial_port.is_open
    rts,            \* the RTS line (PTT)
    dtr,            \* the DTR line (CW key)
    rigMode,        \* the mode of the rig, as get_mode returns it
    rigPtt,         \* the PTT status of the rig, as get_ptt returns it (0 or 1)
    file,           \* per prompt: the wav file is "absent", "partial" or "complete"
    gen,            \* pre_generate_tts: index of the generate_tts_file call (4: returned)
    genpc,          \* generate_tts_file: "call", "piper" (process running)
    status,         \* status_var
    pc,             \* per operation: the point of control
    button,         \* per operation: the button pressed
    original_mode,  \* per operation: original_mode of tts_thread
    waited,         \* per operation: i of the wait loop (sleeps done)
    npoll,          \* per operation: non-zero power meter reads (saturating)
    log,            \* per operation: the calls made to serial port, rig, processes
    result,         \* per operation: the last text it wrote to status_var
    generated,      \* per prompt: what generate_tts_file returned ("pending" before)
    renders,        \* per prompt: the number of generate_tts_file calls made for it
    recording_process,      \* None ("none"), or the ffmpeg process: "running", "exited"
    current_recording_file, \* None (<<>>) or a path
    recording_was_saved,
    disk,           \* the recording files that exist
    signals,        \* the calls made on the ffmpeg process started last to stop it
    nrec,           \* the number of recordings started
    dialog,         \* the modal dialog that is open ("none" when none is)
    btn_rec,        \* the colour of the record button: "red" or "default"
    reclog,         \* the recorder operation run last and its call that failed
    closing,        \* on_closing: its point of control ("destroyed" at its end)
    poll_after,     \* the number of pending root.after(2000, poll_rig_status)
    polled          \* the last run of poll_rig_status: "ok", or "error" (a read raised)

\* the state of the recorder
recVars == <<recording_process, current_recording_file, recording_was_saved,
             disk, signals, nrec, dialog, btn_rec, reclog>>

\* the state of the window: the shutdown handler and the timer of the poll
uiVars == <<closing, poll_after, polled>>

vars == <<portOpen, rts, dtr, rigMode, rigPtt, file, gen, genpc, status, pc,
          button, original_mode, waited, npoll, log, result, generated, renders,
          recVars, uiVars>>

\* a call of the operation: its name, its argument (a mode or <<>>), whether it succeeded
Call(name, arg, ok) == <<name, arg, ok>>

Logged(o, c) == log' = [log EXCEPT ![o] = Append(@, c)]

\* number of failed calls of operation o so far
Faults(o) == Cardinality({i \in 1..Len(log[o]) : ~log[o][i][3]})
MayFail(o) == Faults(o) < MaxFaults

\* status_var.set(text) by operation o
SetStatus(o, text) ==
    /\ status' = text
    /\ result' = [result EXCEPT ![o] = text]

Goto(o, p) == pc' = [pc EXCEPT ![o] = p]

\* the points of control inside the handler of a hardware-memory button,
\* which runs on the UI thread
HandlerPcs == {"hw_get_ptt", "hw_rts_up", "hw_write", "hw_rts_down", "hw_except"}
\* the UI loop runs no other callback: a handler is running, or the window is
\* being closed or has been destroyed
UIBusy ==
    \/ \E o \in Ops : pc[o] \in HandlerPcs
    \/ closing # "idle"

\* an operation slot is free when unused or when its operation has ended;
\* a button press takes the lowest free slot
Free(o) ==
    /\ pc[o] \in {"idle", "done"}
    /\ \A q \in Ops : q < o => pc[q] \notin {"idle", "done"}

\* the fields of a slot at the start of an operation
Fresh(o, b) ==
    /\ button' = [button EXCEPT ![o] = b]
    /\ original_mode' = [original_mode EXCEPT ![o] = NoMode]
    /\ waited' = [waited EXCEPT ![o] = 0]
    /\ npoll' = [npoll EXCEPT ![o] = 0]
    /\ log' = [log EXCEPT ![o] = <<>>]

\* The port was opened with both lines low, or could not be opened (lines
\* 126-134); the wav files in /tmp are absent, or left there by an earlier run.
\* The first run of the poll (line 1076) could not read the rig: no status
\* text is set, and the poll is scheduled.
Init ==
    /\ portOpen \in BOOLEAN
    /\ rts = FALSE
    /\ dtr = FALSE
    /\ rigMode \in RigModes
    /\ rigPtt \in {0, 1}
    /\ \E f \in {"absent", "complete"} : file = [p \in Prompts |-> f]
    /\ gen = 1
    /\ genpc = "call"
    /\ status = <<>>
    /\ pc = [o \in Ops |-> "idle"]
    /\ button = [o \in Ops |-> "none"]
    /\ original_mode = [o \in Ops |-> NoMode]
    /\ waited = [o \in Ops |-> 0]
    /\ npoll = [o \in Ops |-> 0]
    /\ log = [o \in Ops |-> <<>>]
    /\ result = [o \in Ops |-> <<>>]
    /\ generated = [p \in Prompts |-> "pending"]
    /\ renders = [p \in Prompts |-> 0]
    /\ recording_process = "none"
    /\ current_recording_file = <<>>
    /\ recording_was_saved = FALSE
    /\ disk = {}
    /\ signals = <<>>
    /\ nrec = 0
    /\ dialog = "none"
    /\ btn_rec = "default"
    /\ reclog = <<"none", "none">>
    /\ closing = "idle"
    /\ poll_after = 1
    /\ polled = "error"

\* an operation is in flight from the button press to its end
InFlight(o) == pc[o] \notin {"idle", "done"}
Alone == \A q \in Ops : ~InFlight(q)

(* ---------------------------------------------------------------- the rig *)
\* The rig starts or stops transmitting for a reason outside the program (the
\* microphone PTT, another program); taken between operations, so that
\* rigPtt is what the rig reports from the start of an operation to its end.
rig_ptt_changes ==
    /\ Alone
    /\ rigPtt' = 1 - rigPtt
    /\ UNCHANGED <<portOpen, rts, dtr, rigMode, file, gen, genpc, status, pc,
                   button, original_mode, waited, npoll, log, result>>
    /\ UNCHANGED <<generated, renders, recVars, uiVars>>

\* poll_rig_status whose root.after follows the reads inside the try block
\* instead of standing in "finally": a read that raises ends the polling
poll_rig_status_no_finally ==
    /\ ~UIBusy
    /\ poll_after > 0
    /\ \/ /\ status' = <<"rig", rigMode>>
          /\ polled' = "ok"
          /\ poll_after' = (poll_after - 1) + 1
       \/ /\ status' = status
          /\ polled' = "error"
          /\ poll_after' = poll_after - 1
    /\ UNCHANGED closing
    /\ UNCHANGED <<portOpen, rts, dtr, rigMode, rigPtt, file, gen, genpc, pc,
                   button, original_mode, waited, npoll, log, result>>
    /\ UNCHANGED <<generated, renders, recVars>>

\* poll_rig_status, lines 217-239: a run of the status poll on the UI loop,
\* started by the timer; the reads of the rig succeed and the status text is
\* replaced, or one of them raises and the text stays; the poll is scheduled
\* again either way (line 239)
poll_rig_status ==
    /\ ~UIBusy
    /\ poll_after > 0
    /\ \/ /\ status' = <<"rig", rigMode>>
          /\ polled' = "ok"
       \/ /\ status' = status
          /\ polled' = "error"
    /\ poll_after' = (poll_after - 1) + 1
    /\ UNCHANGED closing
    /\ UNCHANGED <<portOpen, rts, dtr, rigMode, rigPtt, file, gen, genpc, pc,
                   button, original_mode, waited, npoll, log, result>>
    /\ UNCHANGED <<generated, renders, recVars>>

(* ------------------------------------------ hardware memories T1 and T2 *)
\* play_voice_memory_t1/_t2, lines 576-579: the handler starts, port check
play_voice_memory(o, b) ==
    /\ Free(o)
    /\ ~UIBusy
    /\ Fresh(o, b)
    /\ IF ~portOpen
       THEN /\ status' = <<"Serial port not available">>
            /\ result' = [result EXCEPT ![o] = <<"Serial port not available">>]
            /\ Goto(o, "done")
       ELSE /\ result' = [result EXCEPT ![o] = <<>>]
            /\ Goto(o, "hw_get_ptt")
            /\ UNCHANGED status
    /\ UNCHANGED <<portOpen, rts, dtr, rigMode, rigPtt, file, gen, genpc>>
    /\ UNCHANGED <<generated, renders, recVars, uiVars>>

\* hw_get_ptt with a failed request taken as "not transmitting"
hw_get_ptt_ignored(o) ==
    /\ pc[o] = "hw_get_ptt"
    /\ \/ /\ Logged(o, Call("get_ptt", <<>>, TRUE))
          /\ IF rigPtt = 1
             THEN SetStatus(o, <<"Already transmitting">>) /\ Goto(o, "done")
             ELSE Goto(o, "hw_rts_up") /\ UNCHANGED <<status, result>>
       \/ /\ MayFail(o)
          /\ Logged(o, Call("get_ptt", <<>>, FALSE))
          /\ Goto(o, "hw_rts_up")
          /\ UNCHANGED <<status, result>>
    /\ UNCHANGED <<portOpen, rts, dtr, rigMode, rigPtt, file, gen, genpc, button,
                   original_mode, waited, npoll>>
    /\ UNCHANGED <<generated, renders, recVars, uiVars>>

\* lines 581-585, and 625-627 when the request raises
hw_get_ptt(o) ==
    /\ pc[o] = "hw_get_ptt"
    /\ \/ /\ Logged(o, Call("get_ptt", <<>>, TRUE))
          /\ IF rigPtt = 1
             THEN SetStatus(o, <<"Already transmitting">>) /\ Goto(o, "done")
             ELSE Goto(o, "hw_rts_up") /\ UNCHANGED <<status, result>>
       \/ /\ MayFail(o)
          /\ Logged(o, Call("get_ptt", <<>>, FALSE))
          /\ SetStatus(o, <<"Error">>)
          /\ Goto(o, "done")
    /\ UNCHANGED <<portOpen, rts, dtr, rigMode, rigPtt, file, gen, genpc, button,
                   original_mode, waited, npoll>>
    /\ UNCHANGED <<generated, renders, recVars, uiVars>>

\* hw_rts_up keying with both lines of the port (serial_port.dtr = True
\* beside serial_port.rts = True)
hw_rts_up_keys_dtr(o) ==
    /\ pc[o] = "hw_rts_up"
    /\ \/ /\ Logged(o, Call("rts_up", <<>>, TRUE))
          /\ rts' = TRUE
          /\ dtr' = TRUE
          /\ Goto(o, "hw_write")
       \/ /\ MayFail(o)
          /\ Logged(o, Call("rts_up", <<>>, FALSE))
          /\ rts' = rts
          /\ dtr' = dtr
          /\ Goto(o, "hw_except")
    /\ UNCHANGED <<portOpen, rigMode, rigPtt, file, gen, genpc, status, button,
                   original_mode, waited, npoll, result>>
    /\ UNCHANGED <<generated, renders, recVars, uiVars>>

\* lines 589-591
hw_rts_up(o) ==
    /\ pc[o] = "hw_rts_up"
    /\ \/ /\ Logged(o, Call("rts_up", <<>>, TRUE))
          /\ rts' = TRUE
          /\ Goto(o, "hw_write")
       \/ /\ MayFail(o)
          /\ Logged(o, Call("rts_up", <<>>, FALSE))
          /\ rts' = rts
          /\ Goto(o, "hw_except")
    /\ UNCHANGED <<portOpen, dtr, rigMode, rigPtt, file, gen, genpc, status, button,
                   original_mode, waited, npoll, result>>
    /\ UNCHANGED <<generated, renders, recVars, uiVars>>

\* lines 594-598
hw_write(o) ==
    /\ pc[o] = "hw_write"
    /\ \/ /\ Logged(o, Call("write", <<>>, TRUE))
          /\ Goto(o, "hw_rts_down")
       \/ /\ MayFail(o)
          /\ Logged(o, Call("write", <<>>, FALSE))
          /\ Goto(o, "hw_except")
    /\ UNCHANGED <<portOpen, rts, dtr, rigMode, rigPtt, file, gen, genpc, status, button,
                   original_mode, waited, npoll, result>>
    /\ UNCHANGED <<generated, renders, recVars, uiVars>>

\* hw_rts_down without line 599: RTS is left raised while the meter is polled
hw_rts_down_kept(o) ==
    /\ pc[o] = "hw_rts_down"
    /\ SetStatus(o, <<"Playing", button[o]>>)
    /\ Goto(o, "hw_poll")
    /\ UNCHANGED <<portOpen, rts, dtr, rigMode, rigPtt, file, gen, genpc, button,
                   original_mode, waited, npoll, log>>
    /\ UNCHANGED <<generated, renders, recVars, uiVars>>

\* lines 599-600, then 609-610 and 624: "Playing T1", wait_and_stop scheduled
hw_rts_down(o) ==
    /\ pc[o] = "hw_rts_down"
    /\ \/ /\ Logged(o, Call("rts_down", <<>>, TRUE))
          /\ rts' = FALSE
          /\ SetStatus(o, <<"Playing", button[o]>>)
          /\ Goto(o, "hw_poll")
       \/ /\ MayFail(o)
          /\ Logged(o, Call("rts_down", <<>>, FALSE))
          /\ rts' = rts
          /\ Goto(o, "hw_except")
          /\ UNCHANGED <<status, result>>
    /\ UNCHANGED <<portOpen, dtr, rigMode, rigPtt, file, gen, genpc, button,
                   original_mode, waited, npoll>>
    /\ UNCHANGED <<generated, renders, recVars, uiVars>>

\* lines 601-607: the serial error handler lowers RTS and returns
hw_except(o) ==
    /\ pc[o] = "hw_except"
    /\ \/ /\ Logged(o, Call("rts_down", <<>>, TRUE))
          /\ rts' = FALSE
       \/ /\ MayFail(o)
          /\ Logged(o, Call("rts_down", <<>>, FALSE))
          /\ rts' = rts
    /\ Goto(o, "done")
    /\ UNCHANGED <<portOpen, dtr, rigMode, rigPtt, file, gen, genpc, status, button,
                   original_mode, waited, npoll, result>>
    /\ UNCHANGED <<generated, renders, recVars, uiVars>>

\* wait_and_stop that gives up after MaxPolls reads of a non-zero meter
wait_and_stop_bounded(o) ==
    /\ pc[o] = "hw_poll"
    /\ ~UIBusy
    /\ \/ /\ Logged(o, Call("get_pwrmeter", <<>>, TRUE))
          /\ SetStatus(o, <<"finished", button[o]>>)
          /\ Goto(o, "done")
          /\ UNCHANGED npoll
       \/ /\ npoll[o] < MaxPolls
          /\ npoll' = [npoll EXCEPT ![o] = @ + 1]
          /\ UNCHANGED <<log, status, result, pc>>
       \/ /\ npoll[o] = MaxPolls
          /\ Goto(o, "done")
          /\ UNCHANGED <<npoll, log, status, result>>
       \/ /\ MayFail(o)
          /\ Logged(o, Call("get_pwrmeter", <<>>, FALSE))
          /\ Goto(o, "done")
          /\ UNCHANGED <<npoll, status, result>>
    /\ UNCHANGED <<portOpen, rts, dtr, rigMode, rigPtt, file, gen, genpc, button,
                   original_mode, waited>>
    /\ UNCHANGED <<generated, renders, recVars, uiVars>>

\* wait_and_stop, lines 613-622: one run of the scheduled callback
wait_and_stop(o) ==
    /\ pc[o] = "hw_poll"
    /\ ~UIBusy
    /\ \/ /\ Logged(o, Call("get_pwrmeter", <<>>, TRUE))
          /\ SetStatus(o, <<"finished", button[o]>>)
          /\ Goto(o, "done")
          /\ UNCHANGED npoll
       \/ /\ npoll' = [npoll EXCEPT ![o] = IF @ < MaxPolls THEN @ + 1 ELSE @]
          /\ UNCHANGED <<log, status, result, pc>>
       \/ /\ MayFail(o)
          /\ Logged(o, Call("get_pwrmeter", <<>>, FALSE))
          /\ Goto(o, "done")
          /\ UNCHANGED <<npoll, status, result>>
    /\ UNCHANGED <<portOpen, rts, dtr, rigMode, rigPtt, file, gen, genpc, button,
                   original_mode, waited>>
    /\ UNCHANGED <<generated, renders, recVars, uiVars>>

(* ------------------------------------------------- TTS pre-generation *)
\* whether os.path.exists(wav_file) holds for prompt p
Exists(p) == file[p] # "absent"

\* generate_tts_file, lines 149-154 (and 171-177 when Popen raises)
generate_tts_file_popen ==
    /\ gen <= Len(RenderOrder)
    /\ genpc = "call"
    /\ renders' = [renders EXCEPT ![RenderOrder[gen]] = @ + 1]
    /\ \/ /\ genpc' = "piper" /\ gen' = gen
          /\ UNCHANGED generated
       \/ /\ genpc' = "call" /\ gen' = gen + 1
          /\ generated' = [generated EXCEPT ![RenderOrder[gen]] = "false"]
    /\ UNCHANGED <<portOpen, rts, dtr, rigMode, rigPtt, file, status, pc, button,
                   original_mode, waited, npoll, log, result>>
    /\ UNCHANGED <<recVars, uiVars>>

\* the running piper process opens its --output_file, which empties a file
\* left by an earlier run, and starts writing it
piper_opens_output ==
    /\ gen <= Len(RenderOrder)
    /\ genpc = "piper"
    /\ file[RenderOrder[gen]] # "partial"
    /\ file' = [file EXCEPT ![RenderOrder[gen]] = "partial"]
    /\ UNCHANGED <<generated, renders>>
    /\ UNCHANGED <<portOpen, rts, dtr, rigMode, rigPtt, gen, genpc, status, pc, button,
                   original_mode, waited, npoll, log, result>>
    /\ UNCHANGED <<recVars, uiVars>>

\* lines 155-170: communicate() returns; piper has exited with the file
\* written (return code 0, True is returned) or with an error (False)
generate_tts_file_communicate ==
    /\ gen <= Len(RenderOrder)
    /\ genpc = "piper"
    /\ \/ /\ file' = [file EXCEPT ![RenderOrder[gen]] = "complete"]
          /\ generated' = [generated EXCEPT ![RenderOrder[gen]] = "true"]
       \/ /\ file' = file
          /\ generated' = [generated EXCEPT ![RenderOrder[gen]] = "false"]
    /\ UNCHANGED renders
    /\ gen' = gen + 1
    /\ genpc' = "call"
    /\ UNCHANGED <<portOpen, rts, dtr, rigMode, rigPtt, status, pc, button,
                   original_mode, waited, npoll, log, result>>
    /\ UNCHANGED <<recVars, uiVars>>

(* ------------------------------------------------------ the TTS buttons *)
\* play_tts_n9oh/_tu59/_73, lines 796-798: status set, thread started
play_tts(o, p) ==
    /\ Free(o)
    /\ ~UIBusy
    /\ Fresh(o, p)
    /\ status' = <<"Playing TTS", p>>
    /\ result' = [result EXCEPT ![o] = <<"Playing TTS", p>>]
    /\ Goto(o, "tts_port")
    /\ UNCHANGED <<portOpen, rts, dtr, rigMode, rigPtt, file, gen, genpc>>
    /\ UNCHANGED <<generated, renders, recVars, uiVars>>

\* where tts_thread goes on once the wav file exists: the sox step of
\* play_tts_73 (lines 930-946), else the mode switch
AfterFile(o) == IF button[o] = "73" THEN "tts_sox" ELSE "tts_get_mode"

\* tts_port without the check of lines 706-709
tts_port_unchecked(o) ==
    /\ pc[o] = "tts_port"
    /\ Goto(o, "tts_exists")
    /\ UNCHANGED <<portOpen, rts, dtr, rigMode, rigPtt, file, gen, genpc, status,
                   button, original_mode, waited, npoll, log, result>>
    /\ UNCHANGED <<generated, renders, recVars, uiVars>>

\* tts_thread, lines 706-709
tts_port(o) ==
    /\ pc[o] = "tts_port"
    /\ IF ~portOpen
       THEN SetStatus(o, <<"Serial port error">>) /\ Goto(o, "done")
       ELSE Goto(o, "tts_exists") /\ UNCHANGED <<status, result>>
    /\ UNCHANGED <<portOpen, rts, dtr, rigMode, rigPtt, file, gen, genpc, button,
                   original_mode, waited, npoll, log>>
    /\ UNCHANGED <<generated, renders, recVars, uiVars>>

\* lines 714-716
tts_exists(o) ==
    /\ pc[o] = "tts_exists"
    /\ IF Exists(button[o])
       THEN Goto(o, AfterFile(o)) /\ UNCHANGED <<status, result>>
       ELSE SetStatus(o, <<"Waiting for TTS generation...">>) /\ Goto(o, "tts_wait")
    /\ UNCHANGED <<portOpen, rts, dtr, rigMode, rigPtt, file, gen, genpc, button,
                   original_mode, waited, npoll, log>>
    /\ UNCHANGED <<generated, renders, recVars, uiVars>>

\* tts_wait as "while not os.path.exists(wav_file)": the loop has no end
\* while the file is absent
tts_wait_unbounded(o) ==
    /\ pc[o] = "tts_wait"
    /\ IF ~Exists(button[o])
       THEN /\ waited' = [waited EXCEPT ![o] = IF @ < WaitPolls THEN @ + 1 ELSE @]
            /\ UNCHANGED pc
       ELSE Goto(o, "tts_recheck") /\ UNCHANGED waited
    /\ UNCHANGED <<portOpen, rts, dtr, rigMode, rigPtt, file, gen, genpc, status,
                   button, original_mode, npoll, log, result>>
    /\ UNCHANGED <<generated, renders, recVars, uiVars>>

\* lines 718-721: one iteration of the loop, or its end after range(50)
tts_wait(o) ==
    /\ pc[o] = "tts_wait"
    /\ IF waited[o] < WaitPolls /\ ~Exists(button[o])
       THEN waited' = [waited EXCEPT ![o] = @ + 1] /\ UNCHANGED pc
       ELSE Goto(o, "tts_recheck") /\ UNCHANGED waited
    /\ UNCHANGED <<portOpen, rts, dtr, rigMode, rigPtt, file, gen, genpc, status, button,
                   original_mode, npoll, log, result>>
    /\ UNCHANGED <<generated, renders, recVars, uiVars>>

\* tts_recheck that renders the file itself when it is still missing
tts_recheck_renders(o) ==
    /\ pc[o] = "tts_recheck"
    /\ IF ~Exists(button[o])
       THEN /\ SetStatus(o, <<"TTS generation failed">>)
            /\ Goto(o, "done")
            /\ renders' = [renders EXCEPT ![button[o]] = IF @ < 2 THEN @ + 1 ELSE @]
            /\ UNCHANGED waited
       ELSE /\ Goto(o, AfterFile(o))
            /\ waited' = [waited EXCEPT ![o] = 0]
            /\ UNCHANGED <<status, result, renders>>
    /\ UNCHANGED <<portOpen, rts, dtr, rigMode, rigPtt, file, gen, genpc, button,
                   original_mode, npoll, log>>
    /\ UNCHANGED <<generated, recVars, uiVars>>

\* lines 722-725; the loop variable i is not read after the loop
tts_recheck(o) ==
    /\ pc[o] = "tts_recheck"
    /\ IF ~Exists(button[o])
       THEN /\ SetStatus(o, <<"TTS generation failed">>)
            /\ Goto(o, "done")
            /\ UNCHANGED waited
       ELSE /\ Goto(o, AfterFile(o))
            /\ waited' = [waited EXCEPT ![o] = 0]
            /\ UNCHANGED <<status, result>>
    /\ UNCHANGED <<portOpen, rts, dtr, rigMode, rigPtt, file, gen, genpc, button,
                   original_mode, npoll, log>>
    /\ UNCHANGED <<generated, renders, recVars, uiVars>>

\* play_tts_73, lines 930-946: the pitch shift, which only chooses the file played
tts_sox(o) ==
    /\ pc[o] = "tts_sox"
    /\ \/ Logged(o, Call("sox", <<>>, TRUE))
       \/ MayFail(o) /\ Logged(o, Call("sox", <<>>, FALSE))
       \/ UNCHANGED log
    /\ Goto(o, "tts_get_mode")
    /\ UNCHANGED <<portOpen, rts, dtr, rigMode, rigPtt, file, gen, genpc, status, button,
                   original_mode, waited, npoll, result>>
    /\ UNCHANGED <<generated, renders, recVars, uiVars>>

\* tts_get_mode without the try/except of lines 729-743: a failed read of
\* the mode reaches the outer handler and the prompt is not played
tts_get_mode_aborts(o) ==
    /\ pc[o] = "tts_get_mode"
    /\ \/ /\ Logged(o, Call("get_mode", rigMode, TRUE))
          /\ original_mode' = [original_mode EXCEPT ![o] = rigMode]
          /\ Goto(o, "tts_set_mode")
       \/ /\ MayFail(o)
          /\ Logged(o, Call("get_mode", <<>>, FALSE))
          /\ UNCHANGED original_mode
          /\ Goto(o, "tts_except")
    /\ UNCHANGED <<portOpen, rts, dtr, rigMode, rigPtt, file, gen, genpc, status, button,
                   waited, npoll, result>>
    /\ UNCHANGED <<generated, renders, recVars, uiVars>>

\* lines 730-733, and 742-743 when get_mode raises
tts_get_mode(o) ==
    /\ pc[o] = "tts_get_mode"
    /\ \/ /\ Logged(o, Call("get_mode", rigMode, TRUE))
          /\ original_mode' = [original_mode EXCEPT ![o] = rigMode]
          /\ Goto(o, "tts_set_mode")
       \/ /\ MayFail(o)
          /\ Logged(o, Call("get_mode", <<>>, FALSE))
          /\ UNCHANGED original_mode
          /\ Goto(o, "tts_rts_up")
    /\ UNCHANGED <<portOpen, rts, dtr, rigMode, rigPtt, file, gen, genpc, status, button,
                   waited, npoll, result>>
    /\ UNCHANGED <<generated, renders, recVars, uiVars>>

\* lines 735-741, and 742-743 when set_mode raises
tts_set_mode(o) ==
    /\ pc[o] = "tts_set_mode"
    /\ \/ /\ Logged(o, Call("set_data_mode", data_mode(original_mode[o]), TRUE))
          /\ rigMode' = data_mode(original_mode[o])
       \/ /\ MayFail(o)
          /\ Logged(o, Call("set_data_mode", data_mode(original_mode[o]), FALSE))
          /\ rigMode' = rigMode
    /\ Goto(o, "tts_rts_up")
    /\ UNCHANGED <<portOpen, rts, dtr, rigPtt, file, gen, genpc, status, button,
                   original_mode, waited, npoll, result>>
    /\ UNCHANGED <<generated, renders, recVars, uiVars>>

\* lines 748-754; on a port that was closed meanwhile the value is only
\* stored and the line stays low
tts_rts_up(o) ==
    /\ pc[o] = "tts_rts_up"
    /\ \/ /\ Logged(o, Call("rts_up", <<>>, TRUE))
          /\ rts' = portOpen
          /\ Goto(o, "tts_popen")
          /\ UNCHANGED <<status, result>>
       \/ /\ MayFail(o)
          /\ Logged(o, Call("rts_up", <<>>, FALSE))
          /\ rts' = rts
          /\ SetStatus(o, <<"RTS control failed">>)
          /\ Goto(o, "done")
    /\ UNCHANGED <<portOpen, dtr, rigMode, rigPtt, file, gen, genpc, button,
                   original_mode, waited, npoll>>
    /\ UNCHANGED <<generated, renders, recVars, uiVars>>

\* lines 757-762: paplay is launched on the file as it is at that moment
tts_popen(o) ==
    /\ pc[o] = "tts_popen"
    /\ \/ /\ Logged(o, Call("paplay", <<file[button[o]]>>, TRUE))
          /\ Goto(o, "tts_playing")
       \/ /\ MayFail(o)
          /\ Logged(o, Call("paplay", <<file[button[o]]>>, FALSE))
          /\ Goto(o, "tts_except")
    /\ UNCHANGED <<portOpen, rts, dtr, rigMode, rigPtt, file, gen, genpc, status, button,
                   original_mode, waited, npoll, result>>
    /\ UNCHANGED <<generated, renders, recVars, uiVars>>

\* tts_communicate with a non-zero return code raised as an exception
\* (as subprocess.run(check=True) does), which the outer handler catches
tts_communicate_raises(o) ==
    /\ pc[o] = "tts_playing"
    /\ \/ Logged(o, Call("exit", <<>>, TRUE)) /\ Goto(o, "tts_rts_down")
       \/ MayFail(o) /\ Logged(o, Call("exit", <<>>, FALSE)) /\ Goto(o, "tts_except")
    /\ UNCHANGED <<portOpen, rts, dtr, rigMode, rigPtt, file, gen, genpc, status,
                   button, original_mode, waited, npoll, result>>
    /\ UNCHANGED <<generated, renders, recVars, uiVars>>

\* tts_communicate followed by the mode restore, with the lowering of RTS
\* (lines 770-775) left out
tts_communicate_no_unkey(o) ==
    /\ pc[o] = "tts_playing"
    /\ \/ Logged(o, Call("exit", <<>>, TRUE))
       \/ MayFail(o) /\ Logged(o, Call("exit", <<>>, FALSE))
    /\ Goto(o, "tts_restore")
    /\ UNCHANGED <<portOpen, rts, dtr, rigMode, rigPtt, file, gen, genpc, status,
                   button, original_mode, waited, npoll, result>>
    /\ UNCHANGED <<generated, renders, recVars, uiVars>>

\* lines 764-768: communicate() returns when paplay has exited, with return
\* code 0 or not
tts_communicate(o) ==
    /\ pc[o] = "tts_playing"
    /\ \/ Logged(o, Call("exit", <<>>, TRUE))
       \/ MayFail(o) /\ Logged(o, Call("exit", <<>>, FALSE))
    /\ Goto(o, "tts_rts_down")
    /\ UNCHANGED <<portOpen, rts, dtr, rigMode, rigPtt, file, gen, genpc, status, button,
                   original_mode, waited, npoll, result>>
    /\ UNCHANGED <<generated, renders, recVars, uiVars>>

\* tts_rts_down without the try/except of lines 771-775: the exception
\* reaches the outer handler
tts_rts_down_escapes(o) ==
    /\ pc[o] = "tts_rts_down"
    /\ \/ /\ Logged(o, Call("rts_down", <<>>, TRUE))
          /\ rts' = FALSE
          /\ Goto(o, "tts_restore")
       \/ /\ MayFail(o)
          /\ Logged(o, Call("rts_down", <<>>, FALSE))
          /\ rts' = rts
          /\ Goto(o, "tts_except")
    /\ UNCHANGED <<portOpen, dtr, rigMode, rigPtt, file, gen, genpc, status,
                   button, original_mode, waited, npoll, result>>
    /\ UNCHANGED <<generated, renders, recVars, uiVars>>

\* lines 770-775
tts_rts_down(o) ==
    /\ pc[o] = "tts_rts_down"
    /\ \/ /\ Logged(o, Call("rts_down", <<>>, TRUE))
          /\ rts' = FALSE
       \/ /\ MayFail(o)
          /\ Logged(o, Call("rts_down", <<>>, FALSE))
          /\ rts' = rts
    /\ Goto(o, "tts_restore")
    /\ UNCHANGED <<portOpen, dtr, rigMode, rigPtt, file, gen, genpc, status, button,
                   original_mode, waited, npoll, result>>
    /\ UNCHANGED <<generated, renders, recVars, uiVars>>

\* lines 777-787
tts_restore(o) ==
    /\ pc[o] = "tts_restore"
    /\ IF original_mode[o] # NoMode
       THEN \/ /\ Logged(o, Call("set_restore_mode", restore_mode(original_mode[o]), TRUE))
               /\ rigMode' = restore_mode(original_mode[o])
            \/ /\ MayFail(o)
               /\ Logged(o, Call("set_restore_mode", restore_mode(original_mode[o]), FALSE))
               /\ rigMode' = rigMode
       ELSE UNCHANGED <<log, rigMode>>
    /\ SetStatus(o, <<"TTS finished", button[o]>>)
    /\ Goto(o, "done")
    /\ UNCHANGED <<portOpen, rts, dtr, rigPtt, file, gen, genpc, button,
                   original_mode, waited, npoll>>
    /\ UNCHANGED <<generated, renders, recVars, uiVars>>

\* lines 788-794: the handler of an exception that escaped the steps above
tts_except(o) ==
    /\ pc[o] = "tts_except"
    /\ SetStatus(o, <<"TTS error">>)
    /\ \/ /\ Logged(o, Call("rts_down", <<>>, TRUE))
          /\ rts' = FALSE
       \/ /\ MayFail(o)
          /\ Logged(o, Call("rts_down", <<>>, FALSE))
          /\ rts' = rts
    /\ Goto(o, "done")
    /\ UNCHANGED <<portOpen, dtr, rigMode, rigPtt, file, gen, genpc, button,
                   original_mode, waited, npoll>>
    /\ UNCHANGED <<generated, renders, recVars, uiVars>>

(* ----------------------------------------------------------- the recorder *)
\* the variables of the keying operations, the rig and the pre-generation
keyVars == <<portOpen, rts, dtr, rigMode, rigPtt, file, gen, genpc, pc, button,
             original_mode, waited, npoll, log, result, generated, renders>>

\* output_file of the n-th recording, "/tmp/qso-<timestamp>.mp3" (line 380)
TmpPath(n) == <<"tmp", n>>
\* the paths the operator may choose in the save dialog
Dests == {<<"saved", 1>>, <<"saved", 2>>}

\* recording_process is a process that has not exited: it was launched and
\* has not opened its output file yet, or it is writing it
Alive == recording_process \in {"launched", "writing"}

\* terminate(), wait(timeout=2) and, when the wait times out, kill() called
\* on the process in a way no stop path of the code does: kill() first
Stopped_kill_first(sig) ==
    CASE recording_process = "none" -> sig = signals
      [] Alive -> sig \in {signals \o <<"kill", "terminate", "wait">>}
      [] OTHER -> sig = signals \o <<"kill", "terminate", "wait">>

\* terminate(), wait(timeout=2) and, when the wait times out, kill() (lines
\* 404-410, 444-448, 536-540), made when recording_process is not None: a
\* running process exits within the two seconds ("wait" returned) or does not
\* ("timeout") and is killed; for a process that has exited already
\* terminate() does nothing and wait() returns at once
Stopped(sig) ==
    CASE recording_process = "none" -> sig = signals
      [] Alive -> sig \in {signals \o <<"terminate", "wait">>,
                           signals \o <<"terminate", "timeout", "kill">>}
      [] OTHER -> sig = signals \o <<"terminate", "wait">>

\* a handler of the recorder can run: the UI loop is free, no dialog is open
\* and the window has not been closed
RecReady ==
    /\ ~UIBusy
    /\ dialog = "none"

\* toggle_recording that takes its stop branch whenever a file is current
\* ("if current_recording_file is None" at line 377): with no process held,
\* terminate() raises on None
toggle_recording_by_file ==
    /\ RecReady
    /\ IF current_recording_file = <<>>
       THEN /\ nrec < MaxRecs
            /\ nrec' = nrec + 1
            /\ current_recording_file' = TmpPath(nrec + 1)
            /\ recording_was_saved' = FALSE
            /\ recording_process' = "launched"
            /\ signals' = <<>>
            /\ status' = <<"Recording started">>
            /\ btn_rec' = "red"
            /\ reclog' = <<"start", "ok">>
       ELSE /\ IF recording_process = "none"
               THEN /\ signals' = signals
                    /\ status' = <<"Error">>
                    /\ reclog' = <<"stop", "terminate">>
               ELSE /\ Stopped(signals')
                    /\ status' = <<"Recording stopped">>
                    /\ reclog' = <<"stop", "ok">>
            /\ recording_process' = "none"
            /\ btn_rec' = "default"
            /\ UNCHANGED <<nrec, current_recording_file, recording_was_saved>>
    /\ UNCHANGED <<disk, dialog>>
    /\ UNCHANGED <<keyVars, uiVars>>

\* toggle_recording with the lines 381-382 moved behind the launch: a failed
\* launch keeps the file and the saved flag of the session before
toggle_recording_sets_after_launch ==
    /\ RecReady
    /\ IF recording_process = "none"
       THEN /\ nrec < MaxRecs
            /\ nrec' = nrec + 1
            /\ \/ /\ recording_process' = "launched"
                  /\ current_recording_file' = TmpPath(nrec + 1)
                  /\ recording_was_saved' = FALSE
                  /\ signals' = <<>>
                  /\ status' = <<"Recording started">>
                  /\ btn_rec' = "red"
                  /\ reclog' = <<"start", "ok">>
               \/ /\ recording_process' = "none"
                  /\ UNCHANGED <<current_recording_file, recording_was_saved>>
                  /\ signals' = signals
                  /\ status' = <<"Error">>
                  /\ btn_rec' = "default"
                  /\ reclog' = <<"start", "Popen">>
       ELSE /\ \/ /\ Stopped(signals')
                  /\ status' = <<"Recording stopped">>
                  /\ reclog' = <<"stop", "ok">>
               \/ /\ signals' = signals
                  /\ status' = <<"Error">>
                  /\ reclog' = <<"stop", "terminate">>
            /\ recording_process' = "none"
            /\ btn_rec' = "default"
            /\ UNCHANGED <<nrec, current_recording_file, recording_was_saved>>
    /\ UNCHANGED <<disk, dialog>>
    /\ UNCHANGED <<keyVars, uiVars>>

\* toggle_recording, lines 374-419
toggle_recording ==
    /\ RecReady
    /\ IF recording_process = "none"
       THEN /\ nrec < MaxRecs
            /\ nrec' = nrec + 1
            /\ current_recording_file' = TmpPath(nrec + 1)
            /\ recording_was_saved' = FALSE
            /\ \/ /\ recording_process' = "launched"
                  /\ signals' = <<>>
                  /\ status' = <<"Recording started">>
                  /\ btn_rec' = "red"
                  /\ reclog' = <<"start", "ok">>
               \/ /\ recording_process' = "none"
                  /\ signals' = signals
                  /\ status' = <<"Error">>
                  /\ btn_rec' = "default"
                  /\ reclog' = <<"start", "Popen">>
       ELSE /\ \/ /\ Stopped(signals')
                  /\ status' = <<"Recording stopped">>
                  /\ reclog' = <<"stop", "ok">>
               \/ /\ signals' = signals
                  /\ status' = <<"Error">>
                  /\ reclog' = <<"stop", "terminate">>
            /\ recording_process' = "none"
            /\ btn_rec' = "default"
            /\ UNCHANGED <<nrec, current_recording_file, recording_was_saved>>
    /\ UNCHANGED <<disk, dialog>>
    /\ UNCHANGED <<keyVars, uiVars>>

\* the running ffmpeg process opens its output file (ffmpeg -y ... output_file)
ffmpeg_opens_output ==
    /\ recording_process = "launched"
    /\ recording_process' = "writing"
    /\ disk' = disk \cup {TmpPath(nrec)}
    /\ UNCHANGED <<current_recording_file, recording_was_saved, signals, nrec,
                   dialog, btn_rec, reclog, status>>
    /\ UNCHANGED <<keyVars, uiVars>>

\* the ffmpeg process exits by itself (an input device is missing, ...)
ffmpeg_exits ==
    /\ Alive
    /\ recording_process' = "exited"
    /\ UNCHANGED <<current_recording_file, recording_was_saved, disk, signals, nrec,
                   dialog, btn_rec, reclog, status>>
    /\ UNCHANGED <<keyVars, uiVars>>

\* DeleteNow with an exception handler that resets nothing (lines 463-465
\* left out)
DeleteNow_no_reset(op) ==
    /\ \/ /\ Stopped(signals')
          /\ disk' = disk \ {current_recording_file}
          /\ status' = <<"Deleted">>
          /\ current_recording_file' = <<>>
          /\ recording_was_saved' = FALSE
          /\ reclog' = <<op, "ok">>
          /\ recording_process' = "none"
          /\ btn_rec' = "default"
       \/ /\ Stopped(signals')
          /\ status' = <<"Delete error">>
          /\ reclog' = <<op, "remove">>
          /\ recording_process' = "none"
          /\ btn_rec' = btn_rec
          /\ UNCHANGED <<disk, current_recording_file, recording_was_saved>>
       \/ /\ recording_process # "none"
          /\ signals' = signals
          /\ status' = <<"Delete error">>
          /\ reclog' = <<op, "terminate">>
          /\ UNCHANGED <<recording_process, btn_rec>>
          /\ UNCHANGED <<disk, current_recording_file, recording_was_saved>>
    /\ UNCHANGED nrec

\* delete_recording, lines 442-465: the process is stopped and the file
\* removed; os.remove raises, or terminate() does; op tells the delete of an
\* unsaved recording ("delete") from a confirmed one ("delete_confirmed")
DeleteNow(op) ==
    /\ \/ /\ Stopped(signals')
          /\ disk' = disk \ {current_recording_file}
          /\ status' = <<"Deleted">>
          /\ current_recording_file' = <<>>
          /\ recording_was_saved' = FALSE
          /\ reclog' = <<op, "ok">>
       \/ /\ Stopped(signals')
          /\ status' = <<"Delete error">>
          /\ reclog' = <<op, "remove">>
          /\ UNCHANGED <<disk, current_recording_file, recording_was_saved>>
       \/ /\ recording_process # "none"
          /\ signals' = signals
          /\ status' = <<"Delete error">>
          /\ reclog' = <<op, "terminate">>
          /\ UNCHANGED <<disk, current_recording_file, recording_was_saved>>
    /\ recording_process' = "none"
    /\ btn_rec' = "default"
    /\ UNCHANGED nrec

\* delete_recording that asks before it deletes an unsaved recording too
delete_recording_always_asks ==
    /\ RecReady
    /\ IF current_recording_file = <<>> \/ current_recording_file \notin disk
       THEN /\ status' = <<"No recording to delete">>
            /\ reclog' = <<"delete", "nofile">>
            /\ UNCHANGED <<recording_process, current_recording_file,
                           recording_was_saved, disk, signals, nrec, dialog,
                           btn_rec>>
       ELSE /\ dialog' = "askyesno"
            /\ reclog' = <<"delete", "asked">>
            /\ UNCHANGED <<recording_process, current_recording_file,
                           recording_was_saved, disk, signals, nrec, btn_rec,
                           status>>
    /\ UNCHANGED <<keyVars, uiVars>>

\* delete_recording, lines 422-437: up to the confirmation dialog, which is
\* opened for a saved recording only
delete_recording ==
    /\ RecReady
    /\ IF current_recording_file = <<>> \/ current_recording_file \notin disk
       THEN /\ status' = <<"No recording to delete">>
            /\ reclog' = <<"delete", "nofile">>
            /\ UNCHANGED <<recording_process, current_recording_file,
                           recording_was_saved, disk, signals, nrec, dialog,
                           btn_rec>>
       ELSE IF recording_was_saved
            THEN /\ dialog' = "askyesno"
                 /\ reclog' = <<"delete", "asked">>
                 /\ UNCHANGED <<recording_process, current_recording_file,
                                recording_was_saved, disk, signals, nrec, btn_rec,
                                status>>
            ELSE DeleteNow("delete") /\ UNCHANGED dialog
    /\ UNCHANGED <<keyVars, uiVars>>

\* the operator answers the confirmation dialog (line 433)
askyesno(answer) ==
    /\ dialog = "askyesno"
    /\ dialog' = answer
    /\ UNCHANGED <<recording_process, current_recording_file, recording_was_saved,
                   disk, signals, nrec, btn_rec, reclog, status>>
    /\ UNCHANGED <<keyVars, uiVars>>

\* delete_recording_answered that deletes whatever the operator answered
delete_recording_unasked ==
    /\ dialog \in {"yes", "no"}
    /\ dialog' = "none"
    /\ DeleteNow("delete_confirmed")
    /\ UNCHANGED <<keyVars, uiVars>>

\* delete_recording, lines 438-465: after the dialog has returned
delete_recording_answered ==
    /\ dialog \in {"yes", "no"}
    /\ dialog' = "none"
    /\ IF dialog = "no"
       THEN /\ status' = <<"Delete cancelled">>
            /\ reclog' = <<"delete", "declined">>
            /\ UNCHANGED <<recording_process, current_recording_file,
                           recording_was_saved, disk, signals, nrec, btn_rec>>
       ELSE DeleteNow("delete_confirmed")
    /\ UNCHANGED <<keyVars, uiVars>>

\* play_recording that lowers RTS before it starts the player, so that the
\* recording played is not transmitted
play_recording_unkeys ==
    /\ RecReady
    /\ IF current_recording_file # <<>> /\ current_recording_file \in disk
       THEN \/ /\ status' = <<"Playing">>
               /\ reclog' = <<"play", "ok">>
            \/ /\ status' = <<"Play error">>
               /\ reclog' = <<"play", "Popen">>
       ELSE /\ status' = <<"No recording to play">>
            /\ reclog' = <<"play", "nofile">>
    /\ rts' = FALSE
    /\ UNCHANGED <<recording_process, current_recording_file, recording_was_saved,
                   disk, signals, nrec, dialog, btn_rec>>
    /\ UNCHANGED <<portOpen, dtr, rigMode, rigPtt, file, gen, genpc, pc, button,
                   original_mode, waited, npoll, log, result, generated, renders,
                   uiVars>>

\* play_recording, lines 468-478: vlc is started on the file, or Popen raises
play_recording ==
    /\ RecReady
    /\ IF current_recording_file # <<>> /\ current_recording_file \in disk
       THEN \/ /\ status' = <<"Playing">>
               /\ reclog' = <<"play", "ok">>
            \/ /\ status' = <<"Play error">>
               /\ reclog' = <<"play", "Popen">>
       ELSE /\ status' = <<"No recording to play">>
            /\ reclog' = <<"play", "nofile">>
    /\ UNCHANGED <<recording_process, current_recording_file, recording_was_saved,
                   disk, signals, nrec, dialog, btn_rec>>
    /\ UNCHANGED <<keyVars, uiVars>>

\* save_recording that marks the recording saved whatever mv returned
save_recording_unchecked ==
    /\ RecReady
    /\ IF current_recording_file # <<>> /\ current_recording_file \in disk
       THEN \/ /\ reclog' = <<"save", "cancelled">>
               /\ UNCHANGED <<status, current_recording_file, recording_was_saved, disk>>
            \/ \E save_path \in Dests :
                   \/ /\ save_path # current_recording_file
                      /\ disk' = (disk \ {current_recording_file}) \cup {save_path}
                      /\ status' = <<"Saved">>
                      /\ current_recording_file' = save_path
                      /\ recording_was_saved' = TRUE
                      /\ reclog' = <<"save", "ok">>
                   \/ /\ status' = <<"Saved">>
                      /\ current_recording_file' = save_path
                      /\ recording_was_saved' = TRUE
                      /\ reclog' = <<"save", "mv">>
                      /\ UNCHANGED disk
       ELSE /\ status' = <<"No recording to save">>
            /\ reclog' = <<"save", "nofile">>
            /\ UNCHANGED <<current_recording_file, recording_was_saved, disk>>
    /\ UNCHANGED <<recording_process, signals, nrec, dialog, btn_rec>>
    /\ UNCHANGED <<keyVars, uiVars>>

\* save_recording, lines 481-521; the operator cancels the dialog or chooses
\* a path, and mv moves the file there, or returns an error (also when the
\* path is that of the file itself), or running it raises
save_recording ==
    /\ RecReady
    /\ IF current_recording_file # <<>> /\ current_recording_file \in disk
       THEN \/ /\ reclog' = <<"save", "cancelled">>
               /\ UNCHANGED <<status, current_recording_file, recording_was_saved, disk>>
            \/ \E save_path \in Dests :
                   \/ /\ save_path # current_recording_file
                      /\ disk' = (disk \ {current_recording_file}) \cup {save_path}
                      /\ status' = <<"Saved">>
                      /\ current_recording_file' = save_path
                      /\ recording_was_saved' = TRUE
                      /\ reclog' = <<"save", "ok">>
                   \/ /\ status' = <<"Save failed">>
                      /\ reclog' = <<"save", "mv">>
                      /\ UNCHANGED <<current_recording_file, recording_was_saved, disk>>
                   \/ /\ status' = <<"Save error">>
                      /\ reclog' = <<"save", "run">>
                      /\ UNCHANGED <<current_recording_file, recording_was_saved, disk>>
       ELSE /\ status' = <<"No recording to save">>
            /\ reclog' = <<"save", "nofile">>
            /\ UNCHANGED <<current_recording_file, recording_was_saved, disk>>
    /\ UNCHANGED <<recording_process, signals, nrec, dialog, btn_rec>>
    /\ UNCHANGED <<keyVars, uiVars>>

(* ----------------------------------------------------------- the shutdown *)
\* on_closing, lines 524-527: the window is closed; the handler runs on the
\* UI loop, beside the threads of the synthesized prompts
on_closing ==
    /\ RecReady
    /\ closing' = IF portOpen THEN "rts" ELSE "rec"
    /\ UNCHANGED <<keyVars, recVars, status, poll_after, polled>>

\* line 529: serial_port.rts = False; when it raises, "except: pass" (lines
\* 533-534) skips the lines 530-532 and the port stays open
oc_rts ==
    /\ closing = "rts"
    /\ \/ /\ rts' = FALSE
          /\ closing' = "dtr"
       \/ /\ rts' = rts
          /\ closing' = "rec"
    /\ UNCHANGED <<portOpen, dtr, rigMode, rigPtt, file, gen, genpc, status, pc,
                   button, original_mode, waited, npoll, log, result, generated,
                   renders, recVars, poll_after, polled>>

\* line 530: serial_port.dtr = False
oc_dtr ==
    /\ closing = "dtr"
    /\ \/ /\ dtr' = FALSE
          /\ closing' = "close"
       \/ /\ dtr' = dtr
          /\ closing' = "rec"
    /\ UNCHANGED <<portOpen, rts, rigMode, rigPtt, file, gen, genpc, status, pc,
                   button, original_mode, waited, npoll, log, result, generated,
                   renders, recVars, poll_after, polled>>

\* line 531: serial_port.close(); the closed device drops both lines
oc_close ==
    /\ closing = "close"
    /\ portOpen' = FALSE
    /\ rts' = FALSE
    /\ dtr' = FALSE
    /\ closing' = "rec"
    /\ UNCHANGED <<rigMode, rigPtt, file, gen, genpc, status, pc,
                   button, original_mode, waited, npoll, log, result, generated,
                   renders, recVars, poll_after, polled>>

\* lines 535-541: the capture process is stopped and the window destroyed;
\* when terminate() raises, the exception leaves the handler and the window
\* stays
oc_rec ==
    /\ closing = "rec"
    /\ \/ /\ Stopped(signals')
          /\ closing' = "destroyed"
       \/ /\ recording_process # "none"
          /\ signals' = signals
          /\ closing' = "idle"
    /\ UNCHANGED <<recording_process, current_recording_file, recording_was_saved,
                   disk, nrec, dialog, btn_rec, reclog>>
    /\ UNCHANGED <<keyVars, status, poll_after, polled>>

NextRec ==
    \/ toggle_recording
    \/ ffmpeg_opens_output
    \/ ffmpeg_exits
    \/ delete_recording
    \/ \E answer \in {"yes", "no"} : askyesno(answer)
    \/ delete_recording_answered
    \/ play_recording
    \/ save_recording
    \/ on_closing
    \/ oc_rts
    \/ oc_dtr
    \/ oc_close
    \/ oc_rec

\* the recorder alone
SpecRec == Init /\ [][NextRec]_vars

(* ---------------------------------------------------------- specification *)
Next ==
    \/ \E o \in Ops, b \in HwButtons : play_voice_memory(o, b)
    \/ \E o \in Ops : hw_get_ptt(o)
    \/ \E o \in Ops : hw_rts_up(o)
    \/ \E o \in Ops : hw_write(o)
    \/ \E o \in Ops : hw_rts_down(o)
    \/ \E o \in Ops : hw_except(o)
    \/ \E o \in Ops : wait_and_stop(o)
    \/ \E o \in Ops, p \in Prompts : play_tts(o, p)
    \/ \E o \in Ops : tts_port(o)
    \/ \E o \in Ops : tts_exists(o)
    \/ \E o \in Ops : tts_wait(o)
    \/ \E o \in Ops : tts_recheck(o)
    \/ \E o \in Ops : tts_sox(o)
    \/ \E o \in Ops : tts_get_mode(o)
    \/ \E o \in Ops : tts_set_mode(o)
    \/ \E o \in Ops : tts_rts_up(o)
    \/ \E o \in Ops : tts_popen(o)
    \/ \E o \in Ops : tts_communicate(o)
    \/ \E o \in Ops : tts_rts_down(o)
    \/ \E o \in Ops : tts_restore(o)
    \/ \E o \in Ops : tts_except(o)
    \/ generate_tts_file_popen
    \/ piper_opens_output
    \/ generate_tts_file_communicate
    \/ rig_ptt_changes

Spec == Init /\ [][Next]_vars


\* the steps of the operations, without the button presses
OpStep ==
    \/ \E o \in Ops : hw_get_ptt(o)
    \/ \E o \in Ops : hw_rts_up(o)
    \/ \E o \in Ops : hw_write(o)
    \/ \E o \in Ops : hw_rts_down(o)
    \/ \E o \in Ops : hw_except(o)
    \/ \E o \in Ops : wait_and_stop(o)
    \/ \E o \in Ops : tts_port(o)
    \/ \E o \in Ops : tts_exists(o)
    \/ \E o \in Ops : tts_wait(o)
    \/ \E o \in Ops : tts_recheck(o)
    \/ \E o \in Ops : tts_sox(o)
    \/ \E o \in Ops : tts_get_mode(o)
    \/ \E o \in Ops : tts_set_mode(o)
    \/ \E o \in Ops : tts_rts_up(o)
    \/ \E o \in Ops : tts_popen(o)
    \/ \E o \in Ops : tts_communicate(o)
    \/ \E o \in Ops : tts_rts_down(o)
    \/ \E o \in Ops : tts_restore(o)
    \/ \E o \in Ops : tts_except(o)

RenderStep ==
    \/ generate_tts_file_popen
    \/ piper_opens_output
    \/ generate_tts_file_communicate

\* The operator presses a button only when no keying operation is in flight;
\* the pre-generation task runs beside the operations.
NextSolo ==
    \/ \E o \in Ops, b \in HwButtons : Alone /\ play_voice_memory(o, b)
    \/ \E o \in Ops, p \in Prompts : Alone /\ play_tts(o, p)
    \/ OpStep
    \/ RenderStep
    \/ rig_ptt_changes

SpecSolo == Init /\ [][NextSolo]_vars

\* SpecSolo with the status poll running beside the operations
NextSoloPoll ==
    \/ NextSolo
    \/ poll_rig_status

SpecSoloPoll == Init /\ [][NextSoloPoll]_vars

\* Pre-generation has ended: it wrote the file of n9oh, the render of tu59
\* failed with no file written, and the render of 73 failed with its file
\* partly written. Buttons are pressed at any time, also while other
\* operations are in flight.
InitReady ==
    /\ portOpen \in BOOLEAN
    /\ rts = FALSE
    /\ dtr = FALSE
    /\ rigMode \in RigModes
    /\ rigPtt \in {0, 1}
    /\ file = [p \in Prompts |-> CASE p = "n9oh" -> "complete"
                                   [] p = "tu59" -> "absent"
                                   [] p = "73" -> "partial"]
    /\ gen = Len(RenderOrder) + 1
    /\ genpc = "call"
    /\ status = <<>>
    /\ pc = [o \in Ops |-> "idle"]
    /\ button = [o \in Ops |-> "none"]
    /\ original_mode = [o \in Ops |-> NoMode]
    /\ waited = [o \in Ops |-> 0]
    /\ npoll = [o \in Ops |-> 0]
    /\ log = [o \in Ops |-> <<>>]
    /\ result = [o \in Ops |-> <<>>]
    /\ generated = [p \in Prompts |-> IF p = "n9oh" THEN "true" ELSE "false"]
    /\ renders = [p \in Prompts |-> 1]
    /\ recording_process = "none"
    /\ current_recording_file = <<>>
    /\ recording_was_saved = FALSE
    /\ disk = {}
    /\ signals = <<>>
    /\ nrec = 0
    /\ dialog = "none"
    /\ btn_rec = "default"
    /\ reclog = <<"none", "none">>
    /\ closing = "idle"
    /\ poll_after = 1
    /\ polled = "error"

\* the record of an ended operation is dropped (its thread or handler has returned)
release(o) ==
    /\ pc[o] = "done"
    /\ pc' = [pc EXCEPT ![o] = "idle"]
    /\ button' = [button EXCEPT ![o] = "none"]
    /\ original_mode' = [original_mode EXCEPT ![o] = NoMode]
    /\ waited' = [waited EXCEPT ![o] = 0]
    /\ npoll' = [npoll EXCEPT ![o] = 0]
    /\ log' = [log EXCEPT ![o] = <<>>]
    /\ result' = [result EXCEPT ![o] = <<>>]
    /\ UNCHANGED <<portOpen, rts, dtr, rigMode, rigPtt, file, gen, genpc, status>>
    /\ UNCHANGED <<generated, renders, recVars, uiVars>>

NoneEnded == \A o \in Ops : pc[o] # "done"

\* an ended operation's record is dropped before anything else happens
NextOverlap ==
    \/ \E o \in Ops, b \in HwButtons : NoneEnded /\ play_voice_memory(o, b)
    \/ \E o \in Ops, p \in Prompts : NoneEnded /\ play_tts(o, p)
    \/ NoneEnded /\ OpStep
    \/ NoneEnded /\ rig_ptt_changes
    \/ \E o \in Ops : release(o)

SpecOverlap == InitReady /\ [][NextOverlap]_vars

\* The window is closed at any time, also while an operation is in flight;
\* the threads of the prompts run on beside the handler and after it, until
\* the interpreter exits.
NextShut ==
    \/ \E o \in Ops, b \in HwButtons : Alone /\ play_voice_memory(o, b)
    \/ \E o \in Ops, p \in Prompts : Alone /\ play_tts(o, p)
    \/ OpStep
    \/ on_closing
    \/ oc_rts
    \/ oc_dtr
    \/ oc_close
    \/ oc_rec

SpecShut == InitReady /\ [][NextShut]_vars

\* no call of a keying operation has failed
NoFaults == \A o \in Ops : Faults(o) = 0

\* the steps of the recorder and of its capture process
RecorderStep ==
    \/ toggle_recording
    \/ ffmpeg_opens_output
    \/ ffmpeg_exits
    \/ delete_recording
    \/ \E answer \in {"yes", "no"} : askyesno(answer)
    \/ delete_recording_answered
    \/ play_recording
    \/ save_recording

\* the steps of the memory T1 and of the prompt N9OH, whose file is there
PanelOpStep ==
    \/ \E o \in Ops : hw_get_ptt(o)
    \/ \E o \in Ops : hw_rts_up(o)
    \/ \E o \in Ops : hw_write(o)
    \/ \E o \in Ops : hw_rts_down(o)
    \/ \E o \in Ops : wait_and_stop(o)
    \/ \E o \in Ops : tts_port(o)
    \/ \E o \in Ops : tts_exists(o)
    \/ \E o \in Ops : tts_get_mode(o)
    \/ \E o \in Ops : tts_set_mode(o)
    \/ \E o \in Ops : tts_rts_up(o)
    \/ \E o \in Ops : tts_popen(o)
    \/ \E o \in Ops : tts_communicate(o)
    \/ \E o \in Ops : tts_rts_down(o)
    \/ \E o \in Ops : tts_restore(o)

\* The whole panel at work with the port open and the rig in USB, not
\* transmitting: the operator plays the memory T1 and the prompt N9OH, one at
\* a time and with no call of theirs failing, and works the recorder, while
\* the status poll runs.
InitPanel ==
    /\ InitReady
    /\ portOpen
    /\ rigMode = USB
    /\ rigPtt = 0

NextPanel ==
    \/ \E o \in Ops : Alone /\ play_voice_memory(o, "T1")
    \/ \E o \in Ops : Alone /\ play_tts(o, "n9oh")
    \/ PanelOpStep /\ NoFaults'
    \/ poll_rig_status
    \/ RecorderStep

SpecPanel == InitPanel /\ [][NextPanel]_vars

\* The panel at work as in SpecPanel, with recordings made and played only,
\* and the window closed at any time at which no handler runs: keying,
\* recording, polling and shutdown together.
NextCw ==
    \/ \E o \in Ops : Alone /\ play_voice_memory(o, "T1")
    \/ \E o \in Ops : Alone /\ play_tts(o, "n9oh")
    \/ PanelOpStep /\ NoFaults'
    \/ poll_rig_status
    \/ toggle_recording
    \/ ffmpeg_opens_output
    \/ ffmpeg_exits
    \/ play_recording
    \/ on_closing
    \/ oc_rts
    \/ oc_dtr
    \/ oc_close
    \/ oc_rec

SpecCw == InitPanel /\ [][NextCw]_vars

\* the hardware memories alone, one operation at a time
NextHw ==
    \/ \E o \in Ops, b \in HwButtons : Alone /\ play_voice_memory(o, b)
    \/ \E o \in Ops : hw_get_ptt(o)
    \/ \E o \in Ops : hw_rts_up(o)
    \/ \E o \in Ops : hw_write(o)
    \/ \E o \in Ops : hw_rts_down(o)
    \/ \E o \in Ops : hw_except(o)
    \/ \E o \in Ops : wait_and_stop(o)
    \/ rig_ptt_changes

SpecHw == Init /\ [][NextHw]_vars

\* a run of wait_and_stop in which the meter is read as zero (line 615)
wait_reads_zero(o) ==
    /\ wait_and_stop(o)
    /\ result'[o] = <<"finished", button[o]>>

\* the transmission of the memory ends: the meter reads zero in the end
SpecHwFair == SpecHw /\ WF_vars(\E o \in Ops : wait_reads_zero(o))

\* the steps of the threads of the prompts
TtsStep ==
    \/ \E o \in Ops : tts_port(o)
    \/ \E o \in Ops : tts_exists(o)
    \/ \E o \in Ops : tts_wait(o)
    \/ \E o \in Ops : tts_recheck(o)
    \/ \E o \in Ops : tts_sox(o)
    \/ \E o \in Ops : tts_get_mode(o)
    \/ \E o \in Ops : tts_set_mode(o)
    \/ \E o \in Ops : tts_rts_up(o)
    \/ \E o \in Ops : tts_popen(o)
    \/ \E o \in Ops : tts_communicate(o)
    \/ \E o \in Ops : tts_rts_down(o)
    \/ \E o \in Ops : tts_restore(o)
    \/ \E o \in Ops : tts_except(o)

\* Overlapping prompts with the port open and the rig in USB: a prompt is
\* started, and every further one while the ones before it are in flight (a
\* button press takes the lowest free slot); nothing else sets the mode.
InitDuo ==
    /\ InitReady
    /\ portOpen
    /\ rigMode = USB
    /\ rigPtt = 0

NextDuo ==
    \/ \E o \in Ops, p \in Prompts : NoneEnded /\ play_tts(o, p)
    \/ TtsStep

SpecDuo == InitDuo /\ [][NextDuo]_vars

\* the threads run: a thread in the wait loop takes its next iteration
\* (time.sleep(0.1) returns)
SpecSoloFair == SpecSolo /\ WF_vars(\E o \in Ops : tts_wait(o))

(* ----------------------------------------------------------------- claims *)
IsHw(o) == button[o] \in HwButtons
IsTts(o) == button[o] \in Prompts
Ended(o) == pc[o] = "done"

\* operation o has made the call name / made it with success
Did(o, name) == \E i \in 1..Len(log[o]) : log[o][i][1] = name
DidOk(o, name) == \E i \in 1..Len(log[o]) : log[o][i][1] = name /\ log[o][i][3]

\* operation o has raised RTS and has not lowered it since
HoldsPtt(o) ==
    \E i \in 1..Len(log[o]) :
        /\ log[o][i] = Call("rts_up", <<>>, TRUE)
        /\ \A j \in (i + 1)..Len(log[o]) : log[o][j] # Call("rts_down", <<>>, TRUE)

\* C1 (as claimed): at most one operation is in the PTT-asserted state at any
\* instant: no two operations in flight both hold PTT (stated for operations
\* in which no call has failed).
C1_MutualExclusion ==
    \A o1, o2 \in Ops :
        (o1 # o2 /\ InFlight(o1) /\ InFlight(o2) /\ Faults(o1) = 0 /\ Faults(o2) = 0)
            => ~(HoldsPtt(o1) /\ HoldsPtt(o2))

\* C2 (as claimed): when a keying operation into which at most one fault was
\* injected has ended, the RTS line is low.
C2_UnkeyGuarantee ==
    \A o \in Ops : (Ended(o) /\ Faults(o) <= 1) => rts = FALSE

\* the only calls of o that failed are the launch or the exit code of paplay
OnlyPlaybackFailed(o) ==
    \A i \in 1..Len(log[o]) : ~log[o][i][3] => log[o][i][1] \in {"paplay", "exit"}

\* C3 (as claimed): when a synthesized-prompt operation that read the rig mode
\* has ended, the rig mode is the mode it read, whether playback succeeded or
\* failed (no other call of the operation failed).
C3_ModeRestored ==
    \A o \in Ops :
        (Ended(o) /\ IsTts(o) /\ original_mode[o] # NoMode /\ OnlyPlaybackFailed(o))
            => rigMode = original_mode[o]

\* C4 (as claimed): when a synthesized-prompt operation that read the rig mode
\* has ended, it has issued a set-mode request for the mode it read, after its
\* data-mode request.
C4_RestoreOnEveryExit ==
    \A o \in Ops :
        (Ended(o) /\ IsTts(o) /\ original_mode[o] # NoMode)
            => \E i \in 1..Len(log[o]) :
                   /\ log[o][i][1] = "set_restore_mode"
                   /\ log[o][i][2] = original_mode[o]

\* operation o has not raised RTS, written to the serial line, requested a
\* mode or launched playback
NoKeying(o) ==
    /\ ~Did(o, "rts_up")
    /\ ~Did(o, "write")
    /\ ~Did(o, "set_data_mode")
    /\ ~Did(o, "set_restore_mode")
    /\ ~Did(o, "paplay")

\* C5 (as claimed): an operation of either kind that runs with the port open
\* while the rig reports PTT active, and in which no call fails, never raises
\* RTS, writes to the serial line, requests a mode or starts playback, and it
\* ends with the status "Already transmitting" (or, its file being absent,
\* with "TTS generation failed").
C5_AlreadyTransmittingGuard ==
    [][\A o \in Ops :
          (InFlight(o) /\ rigPtt = 1 /\ portOpen /\ Faults(o)' = 0)
              => /\ NoKeying(o)'
                 /\ Ended(o)' => result'[o] \in {<<"Already transmitting">>,
                                                 <<"TTS generation failed">>}]_vars

\* C6: while the serial port is not open, an operation of either kind makes
\* no call at all (no rig request, no mode change, no RTS change, no
\* playback), RTS stays low, and the operation ends at its port check with
\* the port-unavailable status.
C6_PortUnavailableGuard ==
    \A o \in Ops :
        (~portOpen /\ pc[o] # "idle")
            => /\ log[o] = <<>>
               /\ rts = FALSE
               /\ pc[o] \in {"tts_port", "done"}
               /\ Ended(o) => result[o] = IF IsHw(o)
                                          THEN <<"Serial port not available">>
                                          ELSE <<"Serial port error">>

C6_Witness ==
    \E o \in Ops :
        /\ ~portOpen /\ Ended(o) /\ IsTts(o)
        /\ result[o] = <<"Serial port error">>

\* C7: the wait for the TTS file sleeps at most WaitPolls times (range(50) in
\* the source); an operation ends with "TTS generation failed" only after
\* all of them, with the file still absent at its last look and without
\* any call made (no mode request, no RTS change, no playback); and whenever
\* a thread is in the wait loop, the wait loop is left, also when the file
\* never appears.
C7_WaitInvariant ==
    \A o \in Ops :
        /\ waited[o] <= WaitPolls
        /\ pc[o] \in {"tts_wait", "tts_recheck"} => log[o] = <<>>
        /\ (Ended(o) /\ result[o] = <<"TTS generation failed">>)
               => waited[o] = WaitPolls /\ log[o] = <<>>

C7_BoundedWait ==
    /\ []C7_WaitInvariant
    /\ (\E o \in Ops : pc[o] = "tts_wait") ~> (\A o \in Ops : pc[o] # "tts_wait")

C7_Witness ==
    \E o \in Ops :
        /\ Ended(o) /\ result[o] = <<"TTS generation failed">>
        /\ waited[o] = WaitPolls
        /\ gen <= Len(RenderOrder)

\* pre_generate_tts is rendering the file of prompt p right now
Rendering(p) == gen <= Len(RenderOrder) /\ RenderOrder[gen] = p /\ genpc = "piper"

\* C8 (as claimed): a synthesized-prompt operation (in which no call has
\* failed) holds PTT or launches playback only when the file of its prompt is
\* completely written and its render is not in progress.
C8_PlayOnlyReady ==
    \A o \in Ops :
        (IsTts(o) /\ Faults(o) = 0 /\ pc[o] \in {"tts_popen", "tts_playing"})
            => file[button[o]] = "complete" /\ ~Rendering(button[o])

Rank(name) ==
    CASE name = "sox" -> 0
      [] name = "get_mode" -> 1
      [] name = "set_data_mode" -> 2
      [] name = "rts_up" -> 3
      [] name = "paplay" -> 4
      [] name = "exit" -> 5
      [] name = "rts_down" -> 6
      [] name = "set_restore_mode" -> 7
      [] OTHER -> 8

\* C10 (as claimed): the calls of a synthesized-prompt operation occur in the
\* order of the protocol; RTS is never raised before the data-mode request
\* has been issued; the restore request is never issued while the operation
\* still holds PTT.
C10_StrictOrder ==
    \A o \in Ops :
        IsTts(o) =>
            /\ \A i, j \in 1..Len(log[o]) :
                   i < j => Rank(log[o][i][1]) < Rank(log[o][j][1])
            /\ Did(o, "rts_up") => Did(o, "set_data_mode")
            /\ Did(o, "set_restore_mode") => ~HoldsPtt(o)

\* C10 (amended): the calls a synthesized-prompt operation makes occur in the
\* order of the protocol, each at most once; RTS is raised only after the
\* mode was read (or the read failed) and, when it was read, after the
\* data-mode request; playback is launched only with RTS raised; RTS is
\* lowered only after playback has exited or failed to launch; the restore
\* request is issued only after the lowering of RTS was attempted.
C10_RelativeOrder ==
    \A o \in Ops :
        IsTts(o) =>
            /\ \A i, j \in 1..Len(log[o]) :
                   i < j => Rank(log[o][i][1]) < Rank(log[o][j][1])
            /\ \A i \in 1..Len(log[o]) : Rank(log[o][i][1]) <= 7
            /\ Did(o, "set_data_mode") => DidOk(o, "get_mode")
            /\ Did(o, "rts_up")
                   => /\ Did(o, "get_mode")
                      /\ DidOk(o, "get_mode") => Did(o, "set_data_mode")
            /\ Did(o, "paplay") => DidOk(o, "rts_up")
            /\ Did(o, "exit") => DidOk(o, "paplay")
            /\ Did(o, "rts_down") => Did(o, "paplay")
            /\ Did(o, "set_restore_mode") => Did(o, "rts_down") /\ Did(o, "exit")

C10_Witness ==
    \E o \in Ops :
        /\ IsTts(o) /\ Ended(o)
        /\ Len(log[o]) = 7
        /\ Faults(o) = 0
        /\ result[o] = <<"TTS finished", button[o]>>

\* C11: a synthesized-prompt operation that read the rig mode and whose
\* lowering of RTS after playback (lines 770-775) failed goes on to the
\* restore: its next call is the set-mode request for the restored mode, and
\* it ends only after that request.
C11_RestoreAfterFailedUnkey ==
    \A o \in Ops :
        (IsTts(o) /\ original_mode[o] # NoMode /\ Did(o, "exit"))
            => \A i \in 1..Len(log[o]) :
                   log[o][i] = Call("rts_down", <<>>, FALSE)
                       => /\ pc[o] \in {"tts_restore", "done"}
                          /\ Ended(o) =>
                                 /\ Len(log[o]) = i + 1
                                 /\ log[o][i + 1][1] = "set_restore_mode"
                                 /\ log[o][i + 1][2] = restore_mode(original_mode[o])

C11_Witness ==
    \E o \in Ops :
        /\ IsTts(o) /\ Ended(o) /\ original_mode[o] = USB
        /\ Did(o, "exit")
        /\ \E i \in 1..Len(log[o]) : log[o][i] = Call("rts_down", <<>>, FALSE)
        /\ log[o][Len(log[o])] = Call("set_restore_mode", USB, TRUE)
        /\ rigMode = USB

\* the only calls of o that failed are exit codes of paplay
OnlyExitFailed(o) ==
    \A i \in 1..Len(log[o]) : ~log[o][i][3] => log[o][i][1] = "exit"

\* C12: a synthesized-prompt operation that read the mode "USB", running
\* with no other keying operation in flight and with no failure but the
\* exit code of paplay: playback is launched and runs with the rig in
\* "USB-D" and RTS raised; when the operation has ended after paplay exited
\* with code zero or not, RTS is low, the rig is in "USB" and the status is
\* the finished message.
C12_ExitCodeUnwind ==
    \A o \in Ops :
        (IsTts(o) /\ original_mode[o] = USB /\ OnlyExitFailed(o))
            => /\ pc[o] \in {"tts_popen", "tts_playing"} => rigMode = USB_D
               /\ pc[o] \in {"tts_popen", "tts_playing", "tts_rts_down"} => rts
               /\ Did(o, "paplay") => DidOk(o, "set_data_mode")
               /\ Ended(o) => /\ Did(o, "exit")
                              /\ rts = FALSE
                              /\ rigMode = USB
                              /\ result[o] = <<"TTS finished", button[o]>>

C12_Witness ==
    \E o \in Ops :
        /\ IsTts(o) /\ Ended(o) /\ original_mode[o] = USB
        /\ \E i \in 1..Len(log[o]) : log[o][i] = Call("exit", <<>>, FALSE)
        /\ Faults(o) = 1
        /\ rts = FALSE /\ rigMode = USB

\* C13: a hardware-memory operation whose get_ptt request fails ends at once
\* with the status "Error" (the text of the exception): it makes no other
\* call, so RTS is not raised and nothing is written to the serial line.
C13_RigUnreachable ==
    \A o \in Ops :
        (IsHw(o) /\ Len(log[o]) >= 1 /\ log[o][1] = Call("get_ptt", <<>>, FALSE))
            => /\ Ended(o)
               /\ result[o] = <<"Error">>
               /\ log[o] = << Call("get_ptt", <<>>, FALSE) >>

C13_Witness ==
    \E o \in Ops :
        /\ IsHw(o) /\ Ended(o) /\ rigPtt = 0 /\ rts = FALSE
        /\ log[o] = << Call("get_ptt", <<>>, FALSE) >>
        /\ status = <<"Error">>

\* the status texts that report an error
ErrorTexts ==
    { <<"Error">>, <<"TTS error">>, <<"RTS control failed">>,
      <<"Serial port error">>, <<"Serial port not available">>,
      <<"TTS generation failed">>, <<"Already transmitting">> }

\* C14 (as claimed): when a keying operation in which a call failed has
\* ended, the last status it reported is an error text, never a finished
\* message.
C14_FirstErrorReported ==
    \A o \in Ops : (Ended(o) /\ Faults(o) >= 1) => result[o] \in ErrorTexts

\* the status texts that show a playback in progress
PlayingTexts ==
    {<<"Playing", b>> : b \in HwButtons} \cup {<<"Playing TTS", p>> : p \in Prompts}

\* C15 (as claimed): once a keying operation in which a call failed has ended
\* (no step of it is left to run), the status no longer shows a playback in
\* progress; so after a failed read of the power meter the status is not
\* left at "Playing".
C15_NoStuckIndicator ==
    \A o \in Ops : (Ended(o) /\ Faults(o) >= 1) => status \notin PlayingTexts

\* the points of control of tts_thread, which runs on a background thread
ThreadPcs ==
    {"tts_port", "tts_exists", "tts_wait", "tts_recheck", "tts_sox",
     "tts_get_mode", "tts_set_mode", "tts_rts_up", "tts_popen", "tts_playing",
     "tts_rts_down", "tts_restore", "tts_except"}

\* C16 (as claimed): a step of a background keying thread never writes the
\* status text.
C16_NoStatusWriteFromThread ==
    [][\A o \in Ops :
          (pc[o] \in ThreadPcs /\ pc'[o] # pc[o]) => status' = status]_vars

\* C17 (as claimed): the UI loop's thread is never inside a blocking step
\* (rig request, RTS change with its sleep, serial write) of a keying
\* operation.
C17_KeyingOffUILoop == ~UIBusy

\* C18 (as claimed): after pre-generation has ended, a synthesized-prompt
\* operation for a prompt whose render failed, running with the port open
\* and with no failing call, requests no mode, does not raise RTS and plays
\* nothing, and ends with "TTS generation failed"; and the prompt is not
\* rendered again.
C18_RenderFailureSurfaced ==
    \A o \in Ops :
        (IsTts(o) /\ generated[button[o]] = "false" /\ portOpen /\ Faults(o) = 0)
            => /\ NoKeying(o)
               /\ Ended(o) => result[o] = <<"TTS generation failed">>
               /\ renders[button[o]] = 1

\* the place of prompt p in RenderOrder
Idx(p) == CHOOSE i \in 1..Len(RenderOrder) : RenderOrder[i] = p

\* pre_generate_tts has called generate_tts_file for prompt p
Called(p) == gen > Idx(p) \/ (gen = Idx(p) /\ genpc = "piper")

\* C19: generate_tts_file is called at most once for a prompt, and only by
\* pre_generate_tts (keying operations start no render): the number of calls
\* is 1 when pre_generate_tts has reached the prompt and 0 before; a render
\* is in flight for at most the one prompt pre_generate_tts is at, and its
\* result is recorded only once it has returned.
C19_OneRenderPerPrompt ==
    \A p \in Prompts :
        /\ renders[p] = IF Called(p) THEN 1 ELSE 0
        /\ Rendering(p) => generated[p] = "pending"
        /\ generated[p] # "pending" <=> gen > Idx(p)

C19_Witness ==
    /\ gen > Len(RenderOrder)
    /\ \A p \in Prompts : renders[p] = 1
    /\ \E o \in Ops : IsTts(o) /\ Ended(o) /\ result[o] = <<"TTS generation failed">>

\* C20: the confirmation dialog is open only for a saved recording whose file
\* exists; when the operator has declined, delete_recording sets the status
\* "Delete cancelled" and changes nothing else: the file still exists,
\* current_recording_file and recording_was_saved are unchanged, no signal is
\* sent to the capture process and recording_process is kept; and a saved
\* recording is deleted only after the operator has confirmed.
C20_DeleteNeedsConfirmation ==
    [][/\ dialog' # "none"
           => recording_was_saved' /\ current_recording_file' \in disk'
       /\ (dialog = "no" /\ dialog' = "none")
           => /\ status' = <<"Delete cancelled">>
              /\ current_recording_file' \in disk'
              /\ UNCHANGED <<current_recording_file, recording_was_saved, disk,
                             recording_process, signals, btn_rec>>
       /\ (recording_was_saved /\ current_recording_file \in disk
              /\ current_recording_file \notin disk' /\ ~recording_was_saved')
           => dialog = "yes"]_vars

C20_Witness ==
    /\ status = <<"Delete cancelled">>
    /\ dialog = "none"
    /\ recording_was_saved
    /\ current_recording_file \in Dests
    /\ current_recording_file \in disk
    /\ recording_process = "writing"
    /\ signals = <<>>

C22_SavedOnlyAfterMove ==
    [][/\ (recording_was_saved' /\ ~recording_was_saved) =>
              /\ save_recording
              /\ reclog' = <<"save", "ok">>
       /\ (save_recording /\ reclog' = <<"save", "ok">>) =>
              /\ current_recording_file # <<>>
              /\ current_recording_file' \in Dests
              /\ current_recording_file' \in disk'
              /\ current_recording_file \notin disk'
              /\ recording_was_saved'
       /\ (save_recording /\ reclog' # <<"save", "ok">>) =>
              UNCHANGED <<recording_was_saved, current_recording_file, disk>>
       /\ (toggle_recording /\ reclog'[1] = "start") =>
              ~recording_was_saved']_vars

\* a save has moved the file of the session to the second destination, and
\* it is the only file left
C22_Witness ==
    /\ reclog = <<"save", "ok">>
    /\ recording_was_saved
    /\ current_recording_file = <<"saved", 2>>
    /\ disk = {<<"saved", 2>>}
    /\ status = <<"Saved">>

\* the calls that stop a capture process: the graceful request and a wait
\* that returned, or the graceful request, a wait that timed out and the kill
StopCalls == {<<"terminate", "wait">>, <<"terminate", "timeout", "kill">>}

\* C23: every path that stops the capture process (the stop of the toggle,
\* a delete while a process is held, the shutdown) calls terminate() first,
\* waits, and calls kill() only after the wait has timed out, which happens
\* only for a process that had not exited; no kill() precedes terminate().
C23_GracefulThenForced ==
    [][/\ signals' # signals =>
              \/ signals' = <<>> /\ recording_process' = "launched"
              \/ /\ recording_process # "none"
                 /\ signals = <<>>
                 /\ signals' \in StopCalls
                 /\ ~Alive => signals' = <<"terminate", "wait">>
       /\ (toggle_recording /\ reclog' = <<"stop", "ok">>) =>
              signals' \in StopCalls
       /\ ((delete_recording \/ delete_recording_answered)
             /\ recording_process # "none"
             /\ reclog'[2] \in {"ok", "remove"}) =>
              signals' \in StopCalls
       /\ (oc_rec /\ recording_process # "none" /\ closing' = "destroyed") =>
              signals' \in StopCalls]_vars

\* the shutdown has killed a capture process that did not exit in time
C23_Witness ==
    /\ closing = "destroyed"
    /\ recording_process = "writing"
    /\ signals = <<"terminate", "timeout", "kill">>

\* the calls of the recorder operations that raise
RecFailures == {"Popen", "terminate", "remove"}

\* C24: when a call of a start, a stop or a delete of the recorder raises,
\* the operation ends with no capture-process reference held, the error as
\* the status text and the record button in its default colours.
C24_FailureLeavesIdle ==
    [][((toggle_recording \/ delete_recording \/ delete_recording_answered)
          /\ reclog'[2] \in RecFailures) =>
              /\ recording_process' = "none"
              /\ status' \in {<<"Error">>, <<"Delete error">>}
              /\ btn_rec' = "default"]_vars

\* a delete has failed in terminate(), so while a capture process was held
C24_Witness ==
    /\ reclog = <<"delete", "terminate">>
    /\ recording_process = "none"
    /\ status = <<"Delete error">>
    /\ btn_rec = "default"

\* C25: the status poll schedules itself again at the end of every run,
\* whether its reads of the rig succeeded or one of them raised: one run is
\* pending at any time, and it is run whenever the UI loop is free.
C25_PollingSurvives ==
    /\ poll_after = 1
    /\ ~UIBusy => ENABLED poll_rig_status

\* a run of the poll has failed after one that succeeded while a prompt had
\* the rig in the data mode, and the next run is pending
C25_Witness ==
    /\ polled = "error"
    /\ status = <<"rig", USB_D>>
    /\ poll_after = 1

\* the operations of the recorder
RecorderOp ==
    \/ toggle_recording
    \/ delete_recording
    \/ \E answer \in {"yes", "no"} : askyesno(answer)
    \/ delete_recording_answered
    \/ play_recording
    \/ save_recording

\* C26: no run of the status poll and no operation of the recorder (start,
\* stop, save, delete, play) changes the RTS line (PTT), the DTR line (CW) or
\* the mode of the rig.
C26_PollerRecorderFrame ==
    [][(poll_rig_status \/ RecorderOp) => UNCHANGED <<rts, dtr, rigMode>>]_vars

\* while a prompt holds the PTT line with the rig in the data mode, a
\* recording was played and the poll has run
C26_Witness ==
    /\ rts
    /\ rigMode = USB_D
    /\ reclog = <<"play", "ok">>
    /\ status = <<"rig", USB_D>>

\* C27: the RTS line (PTT) and the DTR line (CW) are low when the port has
\* been opened and no button was pressed yet, and they are low in every state
\* after the shutdown handler has run, also when the thread of a prompt was
\* in flight when the window was closed (stated for the runs in which no call
\* of a keying operation fails).
C27_LinesLowAtShutdown ==
    /\ (\A o \in Ops : button[o] = "none") => ~rts /\ ~dtr
    /\ (closing = "destroyed" /\ NoFaults) => ~rts /\ ~dtr

\* C28: a delete of a recording that is not saved and whose file exists
\* opens no dialog; when no call of it raises, it stops the capture process
\* first if one is held, removes the file, and leaves no process reference,
\* no current file and the saved flag false.
C28_DeleteUnsavedUnasked ==
    [][(delete_recording /\ ~recording_was_saved
          /\ current_recording_file # <<>> /\ current_recording_file \in disk) =>
              /\ dialog' = "none"
              /\ reclog'[1] = "delete"
              /\ reclog'[2] \notin RecFailures =>
                    /\ reclog'[2] = "ok"
                    /\ recording_process # "none" => signals' \in StopCalls
                    /\ current_recording_file \notin disk'
                    /\ recording_process' = "none"
                    /\ current_recording_file' = <<>>
                    /\ ~recording_was_saved'
                    /\ btn_rec' = "default"]_vars

\* the delete of the first recording, which was not saved, has removed its
\* file; its capture process was killed
C28_Witness ==
    /\ reclog = <<"delete", "ok">>
    /\ nrec = 1
    /\ signals = <<"terminate", "timeout", "kill">>
    /\ disk = {}
    /\ current_recording_file = <<>>
    /\ recording_process = "none"
    /\ status = <<"Deleted">>

\* the call that operation o made last (<<>> before its first call)
LastCall(o) == IF log[o] = <<>> THEN <<>> ELSE log[o][Len(log[o])]

\* C29: once the command of a hardware memory is sent, the power meter is
\* read again and again: the poll is left only by a read that returned zero
\* or raised, however many reads returned non-zero before; "finished" is
\* reported only after a read that returned zero; and when the meter reads
\* zero in the end and no read raises, "finished" is reported in the end.
C29_CompletionPoll ==
    /\ [](\A o \in Ops :
             /\ (IsHw(o) /\ pc[o] = "hw_poll" /\ ~UIBusy) => ENABLED wait_and_stop(o)
             /\ (IsHw(o) /\ result[o] = <<"finished", button[o]>>)
                    => LastCall(o) = Call("get_pwrmeter", <<>>, TRUE))
    /\ [][\A o \in Ops :
             (pc[o] = "hw_poll" /\ pc'[o] # "hw_poll")
                 => /\ Len(log'[o]) = Len(log[o]) + 1
                    /\ log'[o][Len(log'[o])][1] = "get_pwrmeter"
                    /\ log'[o][Len(log'[o])][3]
                           => result'[o] = <<"finished", button[o]>>]_vars
    /\ \A o \in Ops :
           (pc[o] = "hw_poll")
               ~> (Ended(o) /\ (result[o] = <<"finished", button[o]>>
                                   \/ LastCall(o) = Call("get_pwrmeter", <<>>, FALSE)))

\* "finished" was reported after as many non-zero reads as the model counts
C29_Witness ==
    \E o \in Ops :
        /\ IsHw(o) /\ Ended(o)
        /\ result[o] = <<"finished", button[o]>>
        /\ npoll[o] = MaxPolls
        /\ Faults(o) = 0

\* C30: with the rig in "USB" and no other request to change the mode, when
\* prompts that overlapped have all ended, the mode of the rig is "USB", the
\* mode set before the first of them started.
C30_OverlapRestoresMode ==
    (\A o \in Ops : IsTts(o) /\ Ended(o)) => rigMode = USB

\* C30 for the runs in which no call of the prompts fails
C30_OverlapRestoresModeNoFault ==
    ((\A o \in Ops : IsTts(o) /\ Ended(o)) /\ NoFaults) => rigMode = USB

\* C31: at every instant at which the playback process started by a prompt
\* is running the RTS line (PTT) is raised: no other keying operation lowers
\* it meanwhile (stated for the runs in which no call fails).
C31_PttHeldForPlayback ==
    NoFaults => \A o \in Ops : pc[o] = "tts_playing" => rts

\* the call name of operation o failed, and no other call of it did
OnlyFailed(o, name) ==
    /\ \E i \in 1..Len(log[o]) : log[o][i][1] = name /\ ~log[o][i][3]
    /\ \A i \in 1..Len(log[o]) : ~log[o][i][3] => log[o][i][1] = name

\* C32: a prompt in which only the read of the rig mode failed has ended
\* with RTS raised and paplay launched, with no prior mode recorded and no
\* set_mode requested at all; one in which only the switch to the data mode
\* failed has raised RTS, launched paplay and requested the restore of the
\* prior mode.
C32_ModeFailureKeepsKeying ==
    \A o \in Ops :
        (IsTts(o) /\ Ended(o)) =>
            /\ OnlyFailed(o, "get_mode") =>
                   /\ DidOk(o, "rts_up")
                   /\ DidOk(o, "paplay")
                   /\ original_mode[o] = NoMode
                   /\ ~Did(o, "set_data_mode")
                   /\ ~Did(o, "set_restore_mode")
            /\ OnlyFailed(o, "set_data_mode") =>
                   /\ DidOk(o, "rts_up")
                   /\ DidOk(o, "paplay")
                   /\ original_mode[o] # NoMode
                   /\ DidOk(o, "set_restore_mode")

\* a prompt was played to its end, and the mode left alone, after its read
\* of the rig mode had failed
C32_Witness ==
    \E o \in Ops :
        /\ IsTts(o) /\ Ended(o)
        /\ OnlyFailed(o, "get_mode")
        /\ DidOk(o, "paplay")
        /\ result[o] = <<"TTS finished", button[o]>>

C34_StartReplacesSession ==
    [][(toggle_recording /\ recording_process = "none") =>
          /\ reclog' \in {<<"start", "ok">>, <<"start", "Popen">>}
          /\ current_recording_file' = TmpPath(nrec + 1)
          /\ current_recording_file' \notin Dests
          /\ recording_was_saved' = FALSE]_vars

\* a start whose launch failed has replaced a session that was saved
C34_Witness ==
    /\ reclog = <<"start", "Popen">>
    /\ recording_process = "none"
    /\ current_recording_file = TmpPath(2)
    /\ ~recording_was_saved
    /\ \E d \in Dests : d \in disk

====
